---- MODULE Spec2Model ----
(***************************************************************************)
(* Model of the NetProbe scan engine (src/net_probe.py): main() and the    *)
(* functions it calls.  An address is a natural number (the 32-bit value    *)
(* of the dotted quad), a CIDR is a pair <<address, prefix length>>.        *)
(***************************************************************************)
EXTENDS Integers, Sequences, FiniteSets, TLC

\* ---------------------------------------------------------------- bounds
MaxNets == 2          \* longest ping_scan.networks list that is explored
MaxRetry == 1         \* largest configured retry (ping_scan and tcp_scan)
MaxThreads == 2       \* largest configured ping_scan.threads
MaxIter == 3          \* iterations of a monitor loop that are explored
ProbeHorizon == 2     \* port entries of an address after which no socket can be had
MaxRuns == 2          \* runs of net_probe on the same configuration and log directory
MaxHostBits == 8      \* shortest prefix explored by the enumeration is /(32 - MaxHostBits)

\* ------------------------------------------------------- program constants
AddrBits == 32
FullPortLast == 65535
MinFullRate == 1      \* 0.1 s, rate limits are counted in tenths of a second

\* ------------------------------------------------------------ input sets
\* 10.0.0.9/30 (hosts .9 and .10) and 10.0.0.10/32 (host .10, inside the first)
NetA == <<167772169, 30>>
NetB == <<167772170, 32>>
Cidrs == {NetA, NetB}

\* configured scan.max_hosts: NetA is over the first limit, nothing over the second
HostLimits == {1, 2}

\* what the network does to the attempts on one address
Kinds == {"up", "down", "unstable"}

PortSpecs ==
  { [mode |-> "list",  ports |-> <<80>>,      port_range |-> [start |-> 0,  end |-> 0]],
    [mode |-> "list",  ports |-> <<80, 80>>,  port_range |-> [start |-> 0,  end |-> 0]],
    [mode |-> "range", ports |-> <<>>,        port_range |-> [start |-> 80, end |-> 81]] }

\* ------------------------------------------------------------- helpers
RECURSIVE Pow2(_)
Pow2(n) == IF n = 0 THEN 1 ELSE 2 * Pow2(n - 1)

Range(lo, hi) == [i \in 1..(IF hi >= lo THEN hi - lo + 1 ELSE 0) |-> lo + i - 1]

SeqSet(s) == {s[i] : i \in 1..Len(s)}

SeqsUpTo(S, n) == UNION {[1..k -> S] : k \in 0..n}

Max(a, b) == IF a >= b THEN a ELSE b

\* an enumeration that iterates the network instead of its hosts()
expand_networkAll(cidr) ==
  LET size == Pow2(AddrBits - cidr[2])
      net  == (cidr[1] \div size) * size
  IN  Range(net, net + size - 1)

\* ipaddress.ip_network(cidr, strict=False).hosts(): host bits of the address
\* are masked off; /32 gives the address itself, /31 both addresses, every
\* shorter prefix the addresses strictly between network and broadcast.
expand_network(cidr) ==
  LET size == Pow2(AddrBits - cidr[2])
      net  == (cidr[1] \div size) * size
  IN  IF cidr[2] = AddrBits THEN <<net>>
      ELSE IF cidr[2] = AddrBits - 1 THEN <<net, net + 1>>
      ELSE Range(net + 1, net + size - 2)

\* len(list(ip_network(cidr).hosts())) of precheck_networks
HostCount(cidr) == Len(expand_network(cidr))

\* build_port_list: the port list
build_port_list(c) ==
  IF c.mode = "list" THEN c.ports
  ELSE IF c.mode = "range" THEN Range(c.port_range.start, c.port_range.end)
  ELSE Range(1, FullPortLast)

\* the keys of the dict built at line 190: the set of the listed ports
PortKeys(c) ==
  IF c.mode = "full" THEN 1..FullPortLast ELSE SeqSet(build_port_list(c))

\* a "full" mode that raises the rate limit but keeps the configured retry
build_port_cfgKeepsRetry(c) ==
  IF c.mode = "full"
  THEN [c EXCEPT !.rate_limit = Max(c.rate_limit, MinFullRate)]
  ELSE c

\* build_port_list: the configuration it leaves behind ("full" rewrites it)
build_port_cfg(c) ==
  IF c.mode = "full"
  THEN [c EXCEPT !.retry = 0, !.rate_limit = Max(c.rate_limit, MinFullRate)]
  ELSE c

\* the retry loop one iteration short
AttemptLimitShort(c) == c.retry

\* range(cfg["retry"] + 1): the number of iterations of the retry loop
AttemptLimit(c) == c.retry + 1

\* a precheck that looks at the first network only
FirstOffenderHeadOnly(networks, max_hosts) ==
  IF Len(networks) > 0 /\ HostCount(networks[1]) > max_hosts THEN 1 ELSE 0

\* index of the first network the precheck loop rejects, 0 if none
FirstOffender(networks, max_hosts) ==
  LET bad == {i \in 1..Len(networks) : HostCount(networks[i]) > max_hosts}
  IN  IF bad = {} THEN 0 ELSE CHOOSE i \in bad : \A j \in bad : i <= j

\* outcomes one probe attempt can have: (True, cost), (False, None), or an
\* exception leaving ping_once / tcp_connect_once
PingOutcomes(kind) ==
  CASE kind = "up"     -> {"ok"}
    [] kind = "down"   -> {"fail"}
    [] kind = "unstable" -> {"ok", "fail", "raise"}

TcpOutcomes == {"ok", "fail", "raise"}

\* the outcomes at the j-th port entry of an address: past the horizon the
\* process has no descriptor left and socket.socket() raises
TcpOutcomesAt(j) == IF j > ProbeHorizon THEN {"raise"} ELSE TcpOutcomes

\* ---------------------------------------------------------------- state
VARIABLES
  phase,       \* position of main()
  cfg,         \* the loaded configuration
  ports,       \* main: ports
  port_stats,  \* main: port_stats
  netIdx,      \* main: index of the network the ping loop is at
  alive_ips,   \* main: alive_ips
  futures,     \* ping_scan_network: one future per host, with its worker's locals
  scanpc,      \* ping_scan_network: position
  done,        \* ping_scan_network: done
  alive,       \* ping_scan_network: alive
  progress,    \* show_progress calls of the current network scan
  netlog,      \* content of the per-network log files
  summarylog,  \* content of summary.log
  tcp,         \* TCP loop position and the locals of tcp_with_retry
  error,       \* exception that ended main(), NoError if none
  hosts,       \* ping_scan_network: hosts
  mon,         \* the single-target monitor (ping_monitor / tcping_monitor main)
  run          \* which run of net_probe this is, and what it started from

vars == <<phase, cfg, ports, port_stats, netIdx, alive_ips, futures, scanpc,
          done, alive, progress, netlog, summarylog, tcp, error, hosts, mon, run>>

NoError == [type |-> "none", cidr |-> <<0, 0>>, count |-> 0, limit |-> 0]

ProbeError == [type |-> "ProbeException", cidr |-> <<0, 0>>, count |-> 0, limit |-> 0]

\* the n-th run, started with configuration file c and log files nl and sl
RunStart(n, c, nl, sl) == [n |-> n, cfg0 |-> c, netlog0 |-> nl, summary0 |-> sl]

\* the monitor before its main() has run
MonIdle == [prog |-> "none", pc |-> "off", exc |-> "none", at |-> "none",
            exit |-> "none", total_count |-> 0, success_count |-> 0,
            fail_count |-> 0, samples |-> 0, log |-> <<>>]

TcpIdle == [i |-> 0, j |-> 0, pc |-> "idle", n |-> 0, s |-> 0, ok |-> FALSE]

Configs ==
  [ networks  : SeqsUpTo(Cidrs, MaxNets),
    max_hosts : HostLimits,
    ping      : [retry : 0..MaxRetry, threads : 1..MaxThreads],
    tcp       : { [enable |-> e, mode |-> p.mode, ports |-> p.ports,
                   port_range |-> p.port_range, retry |-> r, rate_limit |-> 0]
                  : e \in BOOLEAN, p \in PortSpecs, r \in 0..MaxRetry } ]

\* main(), lines 180-187: the configuration is loaded, nothing else has run
Init ==
  /\ cfg \in Configs
  /\ phase = "Init"
  /\ ports = <<>>
  /\ port_stats = <<>>
  /\ netIdx = 0
  /\ alive_ips = <<>>
  /\ futures = <<>>
  /\ scanpc = "idle"
  /\ done = 0
  /\ alive = <<>>
  /\ progress = <<>>
  /\ netlog = [c \in Cidrs |-> <<>>]
  /\ summarylog = <<>>
  /\ tcp = TcpIdle
  /\ error = NoError
  /\ hosts = <<>>
  /\ mon = MonIdle
  /\ run = RunStart(1, cfg, netlog, summarylog)

\* main(), lines 189-190
BuildPorts ==
  /\ phase = "Init"
  /\ ports' = build_port_list(cfg.tcp)
  /\ cfg' = [cfg EXCEPT !.tcp = build_port_cfg(cfg.tcp)]
  /\ port_stats' = [p \in PortKeys(cfg.tcp) |-> [total |-> 0, success |-> 0]]
  /\ phase' = "Precheck"
  /\ UNCHANGED <<run, hosts, mon, netIdx, alive_ips, futures, scanpc, done, alive, progress,
                 netlog, summarylog, tcp, error>>

\* precheck_networks as called at lines 192-198 (the estimate only prints)
Precheck ==
  /\ phase = "Precheck"
  /\ LET k == FirstOffender(cfg.networks, cfg.max_hosts)
     IN  IF k # 0
         THEN /\ phase' = "Rejected"
              /\ error' = [type |-> "RuntimeError", cidr |-> cfg.networks[k],
                           count |-> HostCount(cfg.networks[k]),
                           limit |-> cfg.max_hosts]
              /\ UNCHANGED netIdx
         ELSE /\ phase' = "PingPhase"
              /\ netIdx' = 1
              /\ UNCHANGED error
  /\ UNCHANGED <<run, hosts, mon, cfg, ports, port_stats, alive_ips, futures, scanpc, done,
                 alive, progress, netlog, summarylog, tcp>>

\* ------------------------------------------------------------ ping phase
NewFuture(ip, kind) ==
  [ip |-> ip, kind |-> kind, st |-> "queued", calls |-> 0, pc |-> "ping",
   n |-> 0, s |-> 0, ok |-> FALSE, res |-> "none"]

\* a future whose result has been taken: the locals of its call are gone
Collected(f) ==
  [f EXCEPT !.st = "collected", !.pc = "returned", !.n = 0, !.s = 0, !.ok = FALSE]

Running == {i \in 1..Len(futures) : futures[i].st = "running"}
Queued == {i \in 1..Len(futures) : futures[i].st = "queued"}
Finished == {i \in 1..Len(futures) : futures[i].st = "finished"}

\* a ping_scan_network that opens its log with mode "w"
StartScanTruncates ==
  /\ phase = "PingPhase"
  /\ scanpc = "idle"
  /\ netIdx <= Len(cfg.networks)
  /\ LET cidr == cfg.networks[netIdx]
         hs   == expand_network(cidr)
     IN  /\ hosts' = hs
         /\ \E ks \in [1..Len(hs) -> Kinds] :
               futures' = [i \in 1..Len(hs) |-> NewFuture(hs[i], ks[i])]
         /\ netlog' = [netlog EXCEPT ![cidr] = <<[t |-> "open", ip |-> 0]>>]
  /\ scanpc' = "collect"
  /\ done' = 0
  /\ alive' = <<>>
  /\ progress' = <<>>
  /\ UNCHANGED <<run, mon, phase, cfg, ports, port_stats, netIdx, alive_ips, summarylog,
                 tcp, error>>

\* ping_scan_network, lines 104-114: expand, open the log, write the opening
\* marker, submit one ping_worker per host
StartScan ==
  /\ phase = "PingPhase"
  /\ scanpc = "idle"
  /\ netIdx <= Len(cfg.networks)
  /\ LET cidr == cfg.networks[netIdx]
         hs   == expand_network(cidr)
     IN  /\ hosts' = hs
         /\ \E ks \in [1..Len(hs) -> Kinds] :
               futures' = [i \in 1..Len(hs) |-> NewFuture(hs[i], ks[i])]
         /\ netlog' = [netlog EXCEPT ![cidr] = Append(@, [t |-> "open", ip |-> 0])]
  /\ scanpc' = "collect"
  /\ done' = 0
  /\ alive' = <<>>
  /\ progress' = <<>>
  /\ UNCHANGED <<run, mon, phase, cfg, ports, port_stats, netIdx, alive_ips, summarylog,
                 tcp, error>>

\* a pool that starts a thread per work item, whatever max_workers says
WorkerStartUnbounded(i) ==
  /\ scanpc \in {"collect", "unwind"}
  /\ i \in Queued
  /\ \A j \in Queued : i <= j
  /\ futures' = [futures EXCEPT ![i].st = "running", ![i].calls = @ + 1]
  /\ UNCHANGED <<run, hosts, mon, phase, cfg, ports, port_stats, netIdx, alive_ips, scanpc, done,
                 alive, progress, netlog, summarylog, tcp, error>>

\* a pool that gives up on a work item when every worker is busy
WorkerStartDropping(i) ==
  /\ scanpc \in {"collect", "unwind"}
  /\ i \in Queued
  /\ \A j \in Queued : i <= j
  /\ futures' = IF Cardinality(Running) < cfg.ping.threads
                THEN [futures EXCEPT ![i].st = "running", ![i].calls = @ + 1]
                ELSE [futures EXCEPT ![i].st = "finished", ![i].pc = "returned"]
  /\ UNCHANGED <<run, hosts, mon, phase, cfg, ports, port_stats, netIdx, alive_ips, scanpc, done,
                 alive, progress, netlog, summarylog, tcp, error>>

\* ThreadPoolExecutor(max_workers=threads): a free worker takes the oldest
\* queued work item
WorkerStart(i) ==
  /\ scanpc \in {"collect", "unwind"}
  /\ i \in Queued
  /\ \A j \in Queued : i <= j
  /\ Cardinality(Running) < cfg.ping.threads
  /\ futures' = [futures EXCEPT ![i].st = "running", ![i].calls = @ + 1]
  /\ UNCHANGED <<run, hosts, mon, phase, cfg, ports, port_stats, netIdx, alive_ips, scanpc, done,
                 alive, progress, netlog, summarylog, tcp, error>>

\* ping_worker line 96: one ping_once; an exception of subprocess.run leaves
\* ping_once and ping_worker and is stored in the future
PingOnce(i) ==
  /\ i \in Running
  /\ futures[i].pc = "ping"
  /\ \E o \in PingOutcomes(futures[i].kind) :
       futures' = [futures EXCEPT
                     ![i].n = @ + 1,
                     ![i].ok = (o = "ok"),
                     ![i].pc = IF o = "raise" THEN "raised" ELSE "sleep",
                     ![i].st = IF o = "raise" THEN "finished" ELSE @,
                     ![i].res = IF o = "raise" THEN "exc" ELSE @]
  /\ UNCHANGED <<run, hosts, mon, phase, cfg, ports, port_stats, netIdx, alive_ips, scanpc, done,
                 alive, progress, netlog, summarylog, tcp, error>>

\* a ping_worker that paces only after a failed attempt
PingSleepOnFailure(i) ==
  /\ i \in Running
  /\ futures[i].pc = "sleep"
  /\ LET f == futures[i]
     IN  futures' = [futures EXCEPT
                       ![i].s = IF f.ok THEN @ ELSE @ + 1,
                       ![i].pc = IF f.ok \/ f.n >= AttemptLimit(cfg.ping)
                                 THEN "returned" ELSE "ping",
                       ![i].st = IF f.ok \/ f.n >= AttemptLimit(cfg.ping)
                                 THEN "finished" ELSE @,
                       ![i].res = IF f.ok THEN "alive" ELSE "none"]
  /\ UNCHANGED <<run, hosts, mon, phase, cfg, ports, port_stats, netIdx, alive_ips, scanpc, done,
                 alive, progress, netlog, summarylog, tcp, error>>

\* ping_worker lines 97-100: the sleep, then return on success, loop, or
\* return None when the range is exhausted
PingSleep(i) ==
  /\ i \in Running
  /\ futures[i].pc = "sleep"
  /\ LET f == futures[i]
     IN  futures' = [futures EXCEPT
                       ![i].s = @ + 1,
                       ![i].pc = IF f.ok \/ f.n >= AttemptLimit(cfg.ping)
                                 THEN "returned" ELSE "ping",
                       ![i].st = IF f.ok \/ f.n >= AttemptLimit(cfg.ping)
                                 THEN "finished" ELSE @,
                       ![i].res = IF f.ok THEN "alive" ELSE "none"]
  /\ UNCHANGED <<run, hosts, mon, phase, cfg, ports, port_stats, netIdx, alive_ips, scanpc, done,
                 alive, progress, netlog, summarylog, tcp, error>>

\* a collecting loop that logs every result that is not an exception,
\* also None
CollectLogsAll(i) ==
  /\ scanpc = "collect"
  /\ i \in Finished
  /\ done' = done + 1
  /\ progress' = Append(progress, <<done + 1, Len(futures)>>)
  /\ futures' = [futures EXCEPT ![i] = Collected(@)]
  /\ IF futures[i].res = "exc"
     THEN /\ scanpc' = "unwind"
          /\ UNCHANGED <<alive, netlog>>
     ELSE /\ scanpc' = scanpc
          /\ netlog' = [netlog EXCEPT ![cfg.networks[netIdx]] =
                          Append(@, [t |-> "ping", ip |-> futures[i].ip])]
          /\ IF futures[i].res = "alive"
             THEN alive' = Append(alive, futures[i].ip)
             ELSE UNCHANGED alive
  /\ UNCHANGED <<run, hosts, mon, phase, cfg, ports, port_stats, netIdx, alive_ips, summarylog,
                 tcp, error>>

\* ping_scan_network lines 115-123: one iteration of the as_completed loop;
\* fu.result() re-raises the exception of a worker
Collect(i) ==
  /\ scanpc = "collect"
  /\ i \in Finished
  /\ done' = done + 1
  /\ progress' = Append(progress, <<done + 1, Len(futures)>>)
  /\ futures' = [futures EXCEPT ![i] = Collected(@)]
  /\ IF futures[i].res = "exc"
     THEN /\ scanpc' = "unwind"
          /\ UNCHANGED <<alive, netlog>>
     ELSE /\ scanpc' = scanpc
          /\ IF futures[i].res = "alive"
             THEN /\ alive' = Append(alive, futures[i].ip)
                  /\ netlog' = [netlog EXCEPT ![cfg.networks[netIdx]] =
                                  Append(@, [t |-> "ping", ip |-> futures[i].ip])]
             ELSE UNCHANGED <<alive, netlog>>
  /\ UNCHANGED <<run, hosts, mon, phase, cfg, ports, port_stats, netIdx, alive_ips, summarylog,
                 tcp, error>>

\* ping_scan_network lines 125-128 and main line 206: the loop is over, the
\* pool is shut down, the END marker is written, alive is returned
FinishScan ==
  /\ scanpc = "collect"
  /\ \A i \in 1..Len(futures) : futures[i].st = "collected"
  /\ netlog' = [netlog EXCEPT ![cfg.networks[netIdx]] =
                  Append(@, [t |-> "end", ip |-> 0])]
  /\ alive_ips' = alive_ips \o alive
  /\ netIdx' = netIdx + 1
  /\ scanpc' = "idle"
  /\ futures' = <<>>
  /\ UNCHANGED <<run, hosts, mon, phase, cfg, ports, port_stats, done, alive, progress,
                 summarylog, tcp, error>>

\* the exception of fu.result() leaves the two with blocks: the pool's
\* __exit__ waits for every submitted work item, the file is closed, and
\* the exception leaves ping_scan_network and main
AbortScan ==
  /\ scanpc = "unwind"
  /\ Queued = {} /\ Running = {}
  /\ phase' = "Aborted"
  /\ error' = ProbeError
  /\ scanpc' = "idle"
  /\ UNCHANGED <<run, hosts, mon, cfg, ports, port_stats, netIdx, alive_ips, futures, done, alive,
                 progress, netlog, summarylog, tcp>>

\* a main that enters the TCP loop whatever tcp_scan.enable says
PingDoneAlwaysTcp ==
  /\ phase = "PingPhase"
  /\ scanpc = "idle"
  /\ netIdx > Len(cfg.networks)
  /\ phase' = "TcpPhase"
  /\ tcp' = [TcpIdle EXCEPT !.i = 1, !.j = 1]
  /\ UNCHANGED <<run, hosts, mon, cfg, ports, port_stats, netIdx, alive_ips, futures, scanpc,
                 done, alive, progress, netlog, summarylog, error>>

\* main lines 203-211: the network loop is over
PingDone ==
  /\ phase = "PingPhase"
  /\ scanpc = "idle"
  /\ netIdx > Len(cfg.networks)
  /\ phase' = IF cfg.tcp.enable THEN "TcpPhase" ELSE "Summarize"
  /\ tcp' = [TcpIdle EXCEPT !.i = 1, !.j = 1]
  /\ UNCHANGED <<run, hosts, mon, cfg, ports, port_stats, netIdx, alive_ips, futures, scanpc,
                 done, alive, progress, netlog, summarylog, error>>

\* ------------------------------------------------------------- TCP phase
\* a pair loop that leaves out the last port of every address
NextPairSkipsLast(t) ==
  IF t.j + 1 < Len(ports)
  THEN [t EXCEPT !.j = @ + 1, !.pc = "idle"]
  ELSE [t EXCEPT !.i = @ + 1, !.j = 1, !.pc = "idle"]

\* the pair after (i, j) in "for ip in alive_ips: for port in ports"
NextPair(t) ==
  IF t.j < Len(ports)
  THEN [t EXCEPT !.j = @ + 1, !.pc = "idle"]
  ELSE [t EXCEPT !.i = @ + 1, !.j = 1, !.pc = "idle"]

TcpLoopOver == tcp.i > Len(alive_ips) \/ Len(ports) = 0

\* main line 215 and the call of tcp_with_retry
TcpBegin ==
  /\ phase = "TcpPhase"
  /\ tcp.pc = "idle"
  /\ ~TcpLoopOver
  /\ port_stats' = [port_stats EXCEPT ![ports[tcp.j]].total = @ + 1]
  /\ tcp' = [tcp EXCEPT !.pc = "connect", !.n = 0, !.s = 0, !.ok = FALSE]
  /\ UNCHANGED <<run, hosts, mon, phase, cfg, ports, netIdx, alive_ips, futures, scanpc, done,
                 alive, progress, netlog, summarylog, error>>

\* tcp_with_retry line 150: one tcp_connect_once; socket.socket() and
\* settimeout() are outside the try, their exception leaves main
TcpConnectOnce ==
  /\ phase = "TcpPhase"
  /\ tcp.pc = "connect"
  /\ \E o \in TcpOutcomesAt(tcp.j) :
       IF o = "raise"
       THEN /\ tcp' = [tcp EXCEPT !.n = @ + 1, !.pc = "raised"]
            /\ phase' = "Aborted"
            /\ error' = ProbeError
       ELSE /\ tcp' = [tcp EXCEPT !.n = @ + 1, !.ok = (o = "ok"), !.pc = "sleep"]
            /\ UNCHANGED <<phase, error>>
  /\ UNCHANGED <<run, hosts, mon, cfg, ports, port_stats, netIdx, alive_ips, futures, scanpc,
                 done, alive, progress, netlog, summarylog>>

\* tcp_with_retry lines 151-154 and main lines 217-219
TcpSleep ==
  /\ phase = "TcpPhase"
  /\ tcp.pc = "sleep"
  /\ IF tcp.ok
     THEN /\ tcp' = NextPair([tcp EXCEPT !.s = @ + 1])
          /\ port_stats' = [port_stats EXCEPT ![ports[tcp.j]].success = @ + 1]
     ELSE IF tcp.n >= AttemptLimit(cfg.tcp)
     THEN /\ tcp' = NextPair([tcp EXCEPT !.s = @ + 1])
          /\ UNCHANGED port_stats
     ELSE /\ tcp' = [tcp EXCEPT !.s = @ + 1, !.pc = "connect"]
          /\ UNCHANGED port_stats
  /\ UNCHANGED <<run, hosts, mon, phase, cfg, ports, netIdx, alive_ips, futures, scanpc, done,
                 alive, progress, netlog, summarylog, error>>

\* main lines 213-214: both loops are over
TcpDone ==
  /\ phase = "TcpPhase"
  /\ tcp.pc = "idle"
  /\ TcpLoopOver
  /\ phase' = "Summarize"
  /\ UNCHANGED <<run, hosts, mon, cfg, ports, port_stats, netIdx, alive_ips, futures, scanpc,
                 done, alive, progress, netlog, summarylog, tcp, error>>

\* main lines 222-230
Summarize ==
  /\ phase = "Summarize"
  /\ summarylog' = Append(summarylog, [alive_hosts |-> Len(alive_ips),
                                       port_lines |-> port_stats])
  /\ phase' = "Done"
  /\ UNCHANGED <<run, hosts, mon, cfg, ports, port_stats, netIdx, alive_ips, futures, scanpc,
                 done, alive, progress, netlog, tcp, error>>

Next ==
  \/ BuildPorts
  \/ Precheck
  \/ StartScan
  \/ \E i \in 1..Len(futures) : WorkerStart(i)
  \/ \E i \in 1..Len(futures) : PingOnce(i)
  \/ \E i \in 1..Len(futures) : PingSleep(i)
  \/ \E i \in 1..Len(futures) : Collect(i)
  \/ FinishScan
  \/ AbortScan
  \/ PingDone
  \/ TcpBegin
  \/ TcpConnectOnce
  \/ TcpSleep
  \/ TcpDone
  \/ Summarize

Spec == Init /\ [][Next]_vars

\* every started probe, sleep and thread goes on: the interpreter and the
\* operating system schedule every runnable step of the one process
FairSpec == Spec /\ WF_vars(Next)

\* ================================================ single-target monitors
\* ping_monitor.main and tcping_monitor.main share one shape: a START marker,
\* an endless loop of count / probe / log line / sleep inside try, the two
\* except clauses and the finally block that writes the summary.

\* a configuration for the behaviours in which net_probe's main() does not run
NoScanCfg ==
  [ networks |-> <<>>, max_hosts |-> 1, ping |-> [retry |-> 0, threads |-> 1],
    tcp |-> [enable |-> FALSE, mode |-> "list", ports |-> <<>>,
             port_range |-> [start |-> 0, end |-> 0], retry |-> 0, rate_limit |-> 0] ]

Monitors == {"ping", "tcp"}

\* the places of the loop body an interrupt or an error can arrive at
LoopPcs == {"probe", "write", "sleep"}

\* what one probe of the loop yields: tcp_connect_test returns ok or fail;
\* the ping child prints a reply, a timeout, or nothing at all
MonOutcomes(prog) == IF prog = "ping" THEN {"ok", "fail", "silent"} ELSE {"ok", "fail"}

InitMon ==
  /\ mon \in {[MonIdle EXCEPT !.prog = p] : p \in Monitors}
  /\ cfg = NoScanCfg
  /\ phase = "NotRun"
  /\ ports = <<>>
  /\ port_stats = <<>>
  /\ netIdx = 0
  /\ alive_ips = <<>>
  /\ futures = <<>>
  /\ scanpc = "idle"
  /\ done = 0
  /\ alive = <<>>
  /\ progress = <<>>
  /\ netlog = [c \in Cidrs |-> <<>>]
  /\ summarylog = <<>>
  /\ tcp = TcpIdle
  /\ error = NoError
  /\ hosts = <<>>
  /\ run = RunStart(0, cfg, netlog, summarylog)

ScanVars == <<phase, cfg, ports, port_stats, netIdx, alive_ips, futures, scanpc,
              done, alive, progress, netlog, summarylog, tcp, error, hosts, run>>

\* ping_monitor lines 85-89, tcping_monitor lines 98-102
MonStart ==
  /\ mon.pc = "off"
  /\ mon' = [mon EXCEPT !.pc = "top", !.log = Append(@, [t |-> "START", a |-> 0, b |-> 0, c |-> 0])]
  /\ UNCHANGED ScanVars

\* ping_monitor line 92, tcping_monitor line 105
MonCount ==
  /\ mon.pc = "top"
  /\ mon.total_count < MaxIter
  /\ mon' = [mon EXCEPT !.total_count = @ + 1, !.pc = "probe"]
  /\ UNCHANGED ScanVars

\* ping_monitor lines 94-129, tcping_monitor lines 106-114: the probe
\* returns and the counters are updated
MonProbe ==
  /\ mon.pc = "probe"
  /\ \E o \in MonOutcomes(mon.prog) :
       mon' = [mon EXCEPT
                 !.success_count = IF o = "ok" THEN @ + 1 ELSE @,
                 !.fail_count = IF o = "ok" THEN @ ELSE @ + 1,
                 !.samples = IF o = "ok" THEN @ + 1 ELSE @,
                 !.pc = IF o = "silent" THEN "sleep" ELSE "write",
                 !.at = o]
  /\ UNCHANGED ScanVars

\* ping_monitor lines 131-137, tcping_monitor lines 116-118
MonWrite ==
  /\ mon.pc = "write"
  /\ mon' = [mon EXCEPT !.pc = "sleep",
                        !.log = Append(@, [t |-> IF mon.at = "ok" THEN "OK" ELSE "FAIL",
                                           a |-> 0, b |-> 0, c |-> 0])]
  /\ UNCHANGED ScanVars

\* ping_monitor line 138, tcping_monitor line 120
MonSleep ==
  /\ mon.pc = "sleep"
  /\ mon' = [mon EXCEPT !.pc = "top"]
  /\ UNCHANGED ScanVars

\* Ctrl+C while the loop body runs: KeyboardInterrupt leaves the with block
MonInterrupt ==
  /\ mon.pc \in LoopPcs
  /\ mon' = [mon EXCEPT !.exc = "KeyboardInterrupt", !.at = mon.pc, !.pc = "except"]
  /\ UNCHANGED ScanVars

\* an unexpected error (OSError of Popen, socket.socket, write, ...) in the loop
MonError ==
  /\ mon.pc \in LoopPcs
  /\ mon' = [mon EXCEPT !.exc = "Exception", !.at = mon.pc, !.pc = "except"]
  /\ UNCHANGED ScanVars

\* an except chain that has no clause for KeyboardInterrupt
MonExceptErrorsOnly ==
  /\ mon.pc = "except"
  /\ mon' = IF mon.exc = "Exception"
            THEN [mon EXCEPT !.exc = "none", !.pc = "finally",
                             !.log = Append(@, [t |-> "ERROR", a |-> 0, b |-> 0, c |-> 0])]
            ELSE [mon EXCEPT !.pc = "finally"]
  /\ UNCHANGED ScanVars

\* ping_monitor lines 140-145, tcping_monitor lines 122-127: both clauses
\* swallow the exception, the second one logs it
MonExcept ==
  /\ mon.pc = "except"
  /\ mon' = IF mon.exc = "Exception"
            THEN [mon EXCEPT !.exc = "none", !.pc = "finally",
                             !.log = Append(@, [t |-> "ERROR", a |-> 0, b |-> 0, c |-> 0])]
            ELSE [mon EXCEPT !.exc = "none", !.pc = "finally"]
  /\ UNCHANGED ScanVars

\* ping_monitor lines 147-162, tcping_monitor lines 129-144: the summary
\* block; main returns unless an exception is still pending
MonFinally ==
  /\ mon.pc = "finally"
  /\ mon' = [mon EXCEPT
               !.pc = "exited",
               !.exit = IF mon.exc = "none" THEN "normal" ELSE "raised",
               !.log = Append(@, [t |-> "SUMMARY", a |-> mon.total_count,
                                  b |-> mon.success_count, c |-> mon.fail_count])]
  /\ UNCHANGED ScanVars

NextMon ==
  \/ MonStart
  \/ MonCount
  \/ MonProbe
  \/ MonWrite
  \/ MonSleep
  \/ MonInterrupt
  \/ MonError
  \/ MonExcept
  \/ MonFinally

SpecMon == InitMon /\ [][NextMon]_vars

\* =================================================== address enumeration
\* 10.0.0.0, 10.0.0.9, 10.0.0.255, 100.64.1.0 and 100.64.1.130
ExpandAddrs == {167772160, 167772169, 167772415, 1681916160, 1681916290}

ExpandCidrs == {<<a, p>> : a \in ExpandAddrs, p \in (AddrBits - MaxHostBits)..30}

\* scan.max_hosts: a limit every network is over, and the default of line 196
ExpandLimits == {1, 1024}

InitExpand ==
  /\ cfg \in {[NoScanCfg EXCEPT !.networks = <<c>>, !.max_hosts = m] :
                c \in ExpandCidrs, m \in ExpandLimits}
  /\ phase = "Init"
  /\ ports = <<>>
  /\ port_stats = <<>>
  /\ netIdx = 0
  /\ alive_ips = <<>>
  /\ futures = <<>>
  /\ scanpc = "idle"
  /\ done = 0
  /\ alive = <<>>
  /\ progress = <<>>
  /\ netlog = [c \in Cidrs |-> <<>>]
  /\ summarylog = <<>>
  /\ tcp = TcpIdle
  /\ error = NoError
  /\ hosts = <<>>
  /\ mon = MonIdle
  /\ run = RunStart(1, cfg, netlog, summarylog)

\* ping_scan_network line 104 alone: the hosts of the network
ExpandHosts ==
  /\ phase = "PingPhase"
  /\ scanpc = "idle"
  /\ netIdx <= Len(cfg.networks)
  /\ hosts' = expand_network(cfg.networks[netIdx])
  /\ scanpc' = "expanded"
  /\ UNCHANGED <<run, mon, phase, cfg, ports, port_stats, netIdx, alive_ips, futures,
                 done, alive, progress, netlog, summarylog, tcp, error>>

NextExpand ==
  \/ BuildPorts
  \/ Precheck
  \/ ExpandHosts

SpecExpand == InitExpand /\ [][NextExpand]_vars

\* ================================================== the "full" port mode
\* tcp_scan.rate_limit in tenths of a second: 0, 0.1 s and 0.2 s
RateLimits == {0, 1, 2}

FullSpec == [mode |-> "full", ports |-> <<>>, port_range |-> [start |-> 0, end |-> 0]]

FullConfigs ==
  [ networks  : SeqsUpTo({NetB}, 1),
    max_hosts : {1},
    ping      : [retry : {0}, threads : {1}],
    tcp       : { [enable |-> e, mode |-> p.mode, ports |-> p.ports,
                   port_range |-> p.port_range, retry |-> r, rate_limit |-> l]
                  : e \in BOOLEAN, p \in PortSpecs \cup {FullSpec},
                    r \in 0..MaxRetry, l \in RateLimits } ]

InitFull ==
  /\ cfg \in FullConfigs
  /\ phase = "Init"
  /\ ports = <<>>
  /\ port_stats = <<>>
  /\ netIdx = 0
  /\ alive_ips = <<>>
  /\ futures = <<>>
  /\ scanpc = "idle"
  /\ done = 0
  /\ alive = <<>>
  /\ progress = <<>>
  /\ netlog = [c \in Cidrs |-> <<>>]
  /\ summarylog = <<>>
  /\ tcp = TcpIdle
  /\ error = NoError
  /\ hosts = <<>>
  /\ mon = MonIdle
  /\ run = RunStart(1, cfg, netlog, summarylog)

SpecFull == InitFull /\ [][Next]_vars

\* ============================================================== re-runs
\* the operator starts net_probe again on the same config.yaml and log_dir
RerunConfigs ==
  [ networks  : SeqsUpTo({NetB}, MaxNets) \cup {<<NetA>>},
    max_hosts : HostLimits,
    ping      : [retry : {0}, threads : {1}],
    tcp       : { [enable |-> e, mode |-> "list", ports |-> <<80>>,
                   port_range |-> [start |-> 0, end |-> 0], retry |-> 0,
                   rate_limit |-> 0] : e \in BOOLEAN } ]

InitRerun ==
  /\ cfg \in RerunConfigs
  /\ phase = "Init"
  /\ ports = <<>>
  /\ port_stats = <<>>
  /\ netIdx = 0
  /\ alive_ips = <<>>
  /\ futures = <<>>
  /\ scanpc = "idle"
  /\ done = 0
  /\ alive = <<>>
  /\ progress = <<>>
  /\ netlog = [c \in Cidrs |-> <<>>]
  /\ summarylog = <<>>
  /\ tcp = TcpIdle
  /\ error = NoError
  /\ hosts = <<>>
  /\ mon = MonIdle
  /\ run = RunStart(1, cfg, netlog, summarylog)

\* a new process: main() from line 180 again; only the files are kept
Restart ==
  /\ phase \in {"Done", "Rejected", "Aborted"}
  /\ run.n < MaxRuns
  /\ run' = RunStart(run.n + 1, run.cfg0, netlog, summarylog)
  /\ cfg' = run.cfg0
  /\ phase' = "Init"
  /\ ports' = <<>>
  /\ port_stats' = <<>>
  /\ netIdx' = 0
  /\ alive_ips' = <<>>
  /\ futures' = <<>>
  /\ scanpc' = "idle"
  /\ done' = 0
  /\ alive' = <<>>
  /\ progress' = <<>>
  /\ tcp' = TcpIdle
  /\ error' = NoError
  /\ hosts' = <<>>
  /\ UNCHANGED <<mon, netlog, summarylog>>

NextRerun ==
  \/ Next
  \/ Restart

SpecRerun == InitRerun /\ [][NextRerun]_vars

\* ================================================================ claims

\* C1: a call of the retrying prober makes at most retry+1 attempts, every
\* attempt is followed by one sleep before the next attempt or the return,
\* so a call that has returned has slept as often as it has attempted.
C1_SleepAfterEveryAttempt ==
  /\ \A i \in 1..Len(futures) :
       LET f == futures[i]
       IN  /\ f.n <= cfg.ping.retry + 1
           /\ f.pc = "ping" => f.s = f.n
           /\ f.pc = "sleep" => f.n = f.s + 1
           /\ (f.st = "finished" /\ f.pc = "returned") => (f.n >= 1 /\ f.s = f.n)
  /\ tcp.n <= cfg.tcp.retry + 1
  /\ tcp.pc = "connect" => tcp.s = tcp.n
  /\ tcp.pc = "sleep" => tcp.n = tcp.s + 1
  /\ (tcp.pc = "idle" /\ phase = "TcpPhase" /\ tcp.n > 0) => tcp.s = tcp.n

\* a ping_worker call that has returned after a failed and a second attempt
C1_Witness ==
  \E i \in 1..Len(futures) :
    /\ futures[i].st = "finished" /\ futures[i].pc = "returned"
    /\ futures[i].n = 2 /\ futures[i].s = 2

\* C2: the prober stops at its first successful attempt and returns its
\* result; it returns the absent result exactly when all retry+1 attempts
\* failed; a failed attempt never becomes an exception.
C2_FirstSuccessOrAbsent ==
  /\ \A i \in 1..Len(futures) :
       LET f == futures[i]
       IN  /\ f.ok => f.pc \in {"sleep", "returned"}
           /\ (f.st = "finished" /\ f.pc = "returned") =>
                /\ f.res \in {"alive", "none"}
                /\ f.res = "alive" <=> f.ok
                /\ f.res = "none" <=> (~f.ok /\ f.n = cfg.ping.retry + 1)
           /\ f.kind \in {"up", "down"} => (f.res # "exc" /\ f.pc # "raised")
  /\ tcp.ok => tcp.pc \in {"sleep", "idle"}
  /\ (tcp.pc = "idle" /\ phase = "TcpPhase" /\ tcp.n > 0 /\ ~tcp.ok)
       => tcp.n = cfg.tcp.retry + 1

\* a ping_worker call that returned the address after one failed attempt
C2_Witness ==
  \E i \in 1..Len(futures) :
    /\ futures[i].st = "finished" /\ futures[i].res = "alive"
    /\ futures[i].n = 2 /\ futures[i].ok

\* C3: if a configured network, at any position, has more usable hosts than
\* max_hosts, the run never gets past the precheck: no probe, no log write,
\* and the error of the rejection names the network, its count and the limit.
C3_PrecheckRejectsWholeRun ==
  (\E k \in 1..Len(cfg.networks) :
      Len(expand_network(cfg.networks[k])) > cfg.max_hosts) =>
    /\ phase \in {"Init", "Precheck", "Rejected"}
    /\ futures = <<>> /\ tcp = TcpIdle /\ alive_ips = <<>>
    /\ \A c \in Cidrs : netlog[c] = <<>>
    /\ summarylog = <<>>
    /\ phase = "Rejected" =>
         /\ error.type = "RuntimeError"
         /\ \E k \in 1..Len(cfg.networks) : cfg.networks[k] = error.cidr
         /\ error.count = Len(expand_network(error.cidr))
         /\ error.count > cfg.max_hosts
         /\ error.limit = cfg.max_hosts

\* a run rejected for its second network, the first being within the limit
C3_Witness ==
  /\ phase = "Rejected"
  /\ Len(cfg.networks) = 2
  /\ Len(expand_network(cfg.networks[1])) <= cfg.max_hosts
  /\ error.cidr = cfg.networks[2]

\* C4: after the TCP phase every port has success <= total and total equal
\* to the number of alive hosts.
C4_PortTotals ==
  (phase \in {"Summarize", "Done"} /\ cfg.tcp.enable) =>
    \A p \in DOMAIN port_stats :
      /\ port_stats[p].success <= port_stats[p].total
      /\ port_stats[p].total = Len(alive_ips)

\* C5: a probe that throws does not stop the collection loop of the pool;
\* the scan of the network goes on and completes.
C5_PoolSurvivesException ==
  /\ scanpc # "unwind"
  /\ ~(phase = "Aborted" /\ tcp.pc # "raised")

\* C6: no exception leaves ping_once or tcp_connect_once, so no run is
\* ended by one.
C6_ProbeBoundary ==
  /\ \A i \in 1..Len(futures) : futures[i].pc # "raised"
  /\ tcp.pc # "raised"
  /\ phase # "Aborted"

\* C7: at most threads ping_worker calls are active at any moment, and each
\* host of the network is handed to ping_worker exactly once.
C7_BoundedWorkers ==
  /\ Cardinality({i \in 1..Len(futures) : futures[i].st = "running"})
       <= cfg.ping.threads
  /\ scanpc # "idle" =>
       /\ Len(futures) = Len(expand_network(cfg.networks[netIdx]))
       /\ \A i \in 1..Len(futures) :
            /\ futures[i].ip = expand_network(cfg.networks[netIdx])[i]
            /\ futures[i].calls = (IF futures[i].st = "queued" THEN 0 ELSE 1)
  /\ (scanpc = "collect" /\ \A i \in 1..Len(futures) : futures[i].st = "collected")
       => \A i \in 1..Len(futures) : futures[i].calls = 1
  /\ (phase = "Aborted" /\ tcp.pc # "raised")
       => \A i \in 1..Len(futures) : futures[i].calls = 1

\* every worker busy while a host is still waiting in the queue
C7_Witness ==
  /\ Cardinality(Running) = cfg.ping.threads
  /\ Queued # {}

\* C8: progress is reported once per completed probe as (1,N), (2,N), ...
\* and the last report of a network's scan is (N,N), whatever the probes did.
C8_ProgressEndsAtN ==
  /\ \A k \in 1..Len(progress) : progress[k] = <<k, Len(futures)>> \/ futures = <<>>
  /\ ( \/ phase = "Aborted" /\ tcp.pc # "raised"
       \/ scanpc = "collect" /\ \A i \in 1..Len(futures) : futures[i].st = "collected" )
     => /\ Len(progress) = Len(futures)
        /\ progress[Len(progress)] = <<Len(futures), Len(futures)>>

\* C9: when every target of a network deterministically succeeds or fails,
\* the alive list of the finished scan holds exactly the succeeding targets,
\* for every worker bound and every interleaving.
C9_SameSetForEveryW ==
  ( /\ scanpc = "collect"
    /\ \A i \in 1..Len(futures) :
         futures[i].st = "collected" /\ futures[i].kind \in {"up", "down"} )
  => /\ {alive[k] : k \in 1..Len(alive)}
          = {futures[i].ip : i \in {j \in 1..Len(futures) : futures[j].kind = "up"}}
     /\ Len(alive) = Cardinality({j \in 1..Len(futures) : futures[j].kind = "up"})

\* two workers, both targets succeed, collected against submission order
C9_Witness ==
  /\ cfg.ping.threads = 2
  /\ scanpc = "collect"
  /\ \A i \in 1..Len(futures) : futures[i].st = "collected" /\ futures[i].kind = "up"
  /\ Len(alive) = 2
  /\ alive[1] = futures[2].ip /\ alive[2] = futures[1].ip

PhaseEdges ==
  { <<"Init", "Precheck">>, <<"Precheck", "PingPhase">>, <<"Precheck", "Rejected">>,
    <<"PingPhase", "TcpPhase">>, <<"PingPhase", "Summarize">>,
    <<"TcpPhase", "Summarize">>, <<"Summarize", "Done">>,
    <<"PingPhase", "Aborted">>, <<"TcpPhase", "Aborted">> }

PingAttemptStep ==
  \E i \in 1..Len(futures) : i <= Len(futures') /\ futures'[i].n > futures[i].n

TcpAttemptStep == tcp'.n > tcp.n

\* C10: the phases follow Init, Precheck, PingPhase, TcpPhase (only when
\* enabled), Summarize, Done, with Rejected left only from Precheck (an
\* uncaught exception ends the run from a probing phase); pings only in
\* the ping phase, networks in configuration order, TCP probes only after
\* every network was scanned, one summary block, written after all probing.
C10_PhaseOrder ==
  /\ [](Len(summarylog) <= 1 /\ (phase = "Done" <=> Len(summarylog) = 1))
  /\ [][ /\ phase' # phase => <<phase, phase'>> \in PhaseEdges
         /\ phase' = "Rejected" => phase = "Precheck"
         /\ PingAttemptStep => (phase = "PingPhase" /\ phase' = "PingPhase")
         /\ netIdx' # netIdx =>
              /\ netIdx' = netIdx + 1
              /\ netIdx > 0 => (phase = "PingPhase" /\ scanpc = "collect")
         /\ (scanpc = "idle" /\ scanpc' = "collect") =>
              /\ phase = "PingPhase" /\ netIdx \in 1..Len(cfg.networks)
              /\ Len(futures') = Len(expand_network(cfg.networks[netIdx]))
              /\ \A i \in 1..Len(futures') :
                   futures'[i].ip = expand_network(cfg.networks[netIdx])[i]
         /\ TcpAttemptStep =>
              (phase = "TcpPhase" /\ netIdx = Len(cfg.networks) + 1 /\ scanpc = "idle")
         /\ phase' = "TcpPhase" => cfg.tcp.enable
         /\ summarylog' # summarylog =>
              (phase = "Summarize" /\ phase' = "Done" /\ scanpc = "idle"
               /\ tcp.pc = "idle")
       ]_vars

\* a finished run over two networks with TCP probing of an alive host
C10_Witness ==
  /\ phase = "Done"
  /\ cfg.tcp.enable
  /\ Len(cfg.networks) = 2
  /\ Len(alive_ips) > 0
  /\ Len(summarylog) = 1

Summaries(log) == {k \in 1..Len(log) : log[k].t = "SUMMARY"}

\* C11: in both monitors an interrupt or an unexpected error arriving in the
\* loop (probe, log write or sleep) is caught, the summary block is written
\* exactly once, as the last block of the log, and main returns normally.
C11_InterruptWritesSummary ==
  /\ mon.pc \in {"off", "top"} \cup LoopPcs => Summaries(mon.log) = {}
  /\ mon.pc \in {"except", "finally"} =>
       (Summaries(mon.log) = {} /\ mon.at \in LoopPcs)
  /\ mon.pc = "exited" =>
       /\ mon.exit = "normal"
       /\ mon.exc = "none"
       /\ Summaries(mon.log) = {Len(mon.log)}
       /\ mon.log[Len(mon.log)].a = mon.total_count

\* a monitor that has exited after an error during the interval sleep
C11_Witness ==
  /\ mon.pc = "exited"
  /\ mon.at = "sleep"
  /\ mon.total_count >= 2
  /\ \E k \in 1..Len(mon.log) : mon.log[k].t = "ERROR"

\* C20: the counters of the summary block satisfy TOTAL = SUCCESS + FAIL
\* wherever in the loop the interrupt or the error arrived.
C20_TotalIsSuccessPlusFail ==
  \A k \in Summaries(mon.log) : mon.log[k].a = mon.log[k].b + mon.log[k].c

Count(log, t) == Cardinality({k \in 1..Len(log) : log[k].t = t})

\* C12: when a run has ended, on whatever path, every opening marker of a
\* per-network log has its END marker.
C12_BlocksClosed ==
  phase \in {"Done", "Rejected", "Aborted"} =>
    \A c \in Cidrs : Count(netlog[c], "open") = Count(netlog[c], "end")

\* C16: alive_ips holds every address at most once.
C16_AliveOnce ==
  \A i, j \in 1..Len(alive_ips) : i # j => alive_ips[i] # alive_ips[j]

LastOpen(log) ==
  CHOOSE k \in 1..Len(log) :
    log[k].t = "open" /\ \A j \in (k + 1)..Len(log) : log[j].t # "open"

\* C17: during and after the collection of a network the PING lines after
\* the opening marker are, in order, the entries of alive; a host is in
\* alive once if its prober returned its address and not at all otherwise;
\* no step of a running worker writes to a log.
C17_LogMatchesAlive ==
  /\ [](scanpc # "idle" =>
         LET log == netlog[cfg.networks[netIdx]]
             k0  == LastOpen(log)
         IN  /\ Len(log) - k0 = Len(alive)
             /\ \A k \in 1..Len(alive) : log[k0 + k] = [t |-> "ping", ip |-> alive[k]]
             /\ \A i \in 1..Len(futures) :
                  Cardinality({k \in 1..Len(alive) : alive[k] = futures[i].ip})
                    = (IF futures[i].st = "collected" /\ futures[i].res = "alive"
                       THEN 1 ELSE 0))
  /\ [][ netlog' # netlog =>
           \A i \in 1..Len(futures) :
             futures[i].st = "running" =>
               (i <= Len(futures') /\ futures'[i] = futures[i]) ]_vars

\* a collected network with one host that failed every attempt and one alive
C17_Witness ==
  /\ scanpc = "collect"
  /\ Len(futures) = 2
  /\ \A i \in 1..Len(futures) : futures[i].st = "collected"
  /\ futures[1].res = "none" /\ futures[2].res = "alive"
  /\ alive = <<futures[2].ip>>

RECURSIVE SumTotal(_, _)
SumTotal(f, S) ==
  IF S = {} THEN 0
  ELSE LET p == CHOOSE x \in S : TRUE IN f[p].total + SumTotal(f, S \ {p})

\* C18: the TCP phase calls the prober once for every (address, port entry)
\* pair, one pair after the other, with no ping worker left running; a pair
\* starts only after the call of the previous one returned, and port_stats
\* changes only in steps of this loop.
C18_TcpSequential ==
  /\ [](phase = "TcpPhase" =>
         /\ scanpc = "idle"
         /\ \A i \in 1..Len(futures) : futures[i].st \notin {"queued", "running"}
         /\ SumTotal(port_stats, DOMAIN port_stats)
              = (tcp.i - 1) * Len(ports) + (tcp.j - 1)
                  + (IF tcp.pc = "idle" THEN 0 ELSE 1))
  /\ []((phase \in {"Summarize", "Done"} /\ cfg.tcp.enable) =>
         SumTotal(port_stats, DOMAIN port_stats) = Len(alive_ips) * Len(ports))
  /\ [][ /\ (phase = "TcpPhase" /\ <<tcp'.i, tcp'.j>> # <<tcp.i, tcp.j>>) =>
              (tcp.pc = "sleep" /\ tcp'.pc = "idle")
         /\ (phase # "Init" /\ port_stats' # port_stats) =>
              (phase = "TcpPhase" /\ tcp.pc \in {"idle", "sleep"})
       ]_vars

\* a finished TCP phase over two alive addresses and two port entries
C18_Witness ==
  /\ phase = "Summarize"
  /\ cfg.tcp.enable
  /\ Len(alive_ips) = 2
  /\ Len(ports) = 2
  /\ SumTotal(port_stats, DOMAIN port_stats) = 4

\* C15: for a prefix length p <= 30 the enumeration is the 2^(32-p) - 2
\* addresses strictly between network and broadcast address, ascending, and
\* the precheck counts that many hosts.
C15_UsableHosts ==
  LET c    == cfg.networks[1]
      size == 2^(32 - c[2])
      net  == c[1] - (c[1] % size)
  IN  /\ scanpc = "expanded" =>
           /\ Len(hosts) = size - 2
           /\ \A k \in 1..Len(hosts) :
                hosts[k] = net + k /\ hosts[k] > net /\ hosts[k] < net + size - 1
      /\ phase = "Rejected" => (error.cidr = c /\ error.count = size - 2)

\* 100.64.1.130/24 expanded to its 254 hosts
C15_Witness ==
  /\ scanpc = "expanded"
  /\ cfg.networks[1] = <<1681916290, 24>>
  /\ Len(hosts) = 254
  /\ hosts[1] = 1681916161 /\ hosts[254] = 1681916414

\* C13: in "full" mode the port list is 1..65535, retry becomes 0 and
\* rate_limit the larger of its configured value and 0.1 s; the rewrite is
\* made by the port-list construction, before the precheck and any probe,
\* and no later step changes the configuration; "list" and "range" never
\* change it.
C13_FullOverrideOnce ==
  /\ [](phase = "Init" => (futures = <<>> /\ tcp = TcpIdle /\ alive_ips = <<>>))
  /\ []((phase # "Init" /\ cfg.tcp.mode = "full") =>
          (Len(ports) = 65535 /\ cfg.tcp.retry = 0 /\ cfg.tcp.rate_limit >= 1))
  /\ [][ /\ (phase = "Init" /\ phase' # "Init" /\ cfg.tcp.mode = "full") =>
              /\ \A k \in 1..65535 : ports'[k] = k
              /\ cfg'.tcp.retry = 0
              /\ cfg'.tcp.rate_limit =
                   (IF cfg.tcp.rate_limit >= 1 THEN cfg.tcp.rate_limit ELSE 1)
              /\ cfg'.ping = cfg.ping
              /\ cfg'.tcp.enable = cfg.tcp.enable
         /\ phase # "Init" => cfg' = cfg
         /\ cfg.tcp.mode \in {"list", "range"} => cfg' = cfg
       ]_vars

\* a "full" configuration with rate limit 0 right after the port list was built
C13_Witness ==
  /\ phase = "Precheck"
  /\ cfg.tcp.mode = "full"
  /\ Len(ports) = 65535
  /\ ports[1] = 1 /\ ports[65535] = 65535
  /\ cfg.tcp.retry = 0 /\ cfg.tcp.rate_limit = 1

IsPrefix(a, b) == Len(a) <= Len(b) /\ \A k \in 1..Len(a) : a[k] = b[k]

Added(a, b) == SubSeq(b, Len(a) + 1, Len(b))

Occurrences(c) == Cardinality({k \in 1..Len(cfg.networks) : cfg.networks[k] = c})

\* C14: no step shortens or rewrites a log file: what a file held before a
\* run is a prefix of what it holds later; a run that reached Done has added
\* one opened and closed ping block per entry of the network list and one
\* summary block.
C14_AppendOnly ==
  /\ [](/\ IsPrefix(run.summary0, summarylog)
        /\ \A c \in Cidrs : IsPrefix(run.netlog0[c], netlog[c])
        /\ phase = "Done" =>
             /\ Len(summarylog) = Len(run.summary0) + 1
             /\ \A c \in Cidrs :
                  /\ Count(Added(run.netlog0[c], netlog[c]), "open") = Occurrences(c)
                  /\ Count(Added(run.netlog0[c], netlog[c]), "end") = Occurrences(c))
  /\ [][ /\ IsPrefix(summarylog, summarylog')
         /\ \A c \in Cidrs : IsPrefix(netlog[c], netlog'[c]) ]_vars

\* a second run that reached Done on logs that already held blocks
C14_Witness ==
  /\ phase = "Done"
  /\ run.n = 2
  /\ run.summary0 # <<>>
  /\ Len(cfg.networks) = 2
  /\ \A k \in 1..Len(cfg.networks) : run.netlog0[cfg.networks[k]] # <<>>

\* C19: every run eventually reaches Done or Rejected.
C19_Terminates == <>(phase \in {"Done", "Rejected"})

====
